---- MODULE Spec2Model ----
(***************************************************************************)
(* Model of types/persistentvolume.go: the compact access-mode list codec  *)
(* (AccessModes.ToString / InitFromString), the volume-source union codec  *)
(* (PersistentVolumeSource.MarshalJSON / UnmarshalJSON / Unmarshal) and    *)
(* the flat merge/split codec of PersistentVolume.                         *)
(*                                                                         *)
(* Strings that the code splits or joins are sequences of one-character    *)
(* strings, so that strings.Split and strings.Join are computed, not       *)
(* assumed.  A Go error is a record [msg, val, arg]: msg = "" is the nil   *)
(* error, val is the value handed to the util error constructor and arg    *)
(* the argument of its format string.                                      *)
(***************************************************************************)
EXTENDS Integers, Sequences, FiniteSets

VARIABLES a, s, v, data, err, hist

vars == <<a, s, v, data, err, hist>>

\* ------------------------------------------------------------------ bounds
MaxModes == 2

MaxSel == 2

\* ----------------------------------------------------------------- strings
SeqsUpTo(S, n) == UNION {[1..k -> S] : k \in 0..n}

RECURSIVE Join(_, _)
Join(parts, sep) ==
    IF Len(parts) = 0 THEN <<>>
    ELSE IF Len(parts) = 1 THEN parts[1]
    ELSE parts[1] \o <<sep>> \o Join(Tail(parts), sep)

RECURSIVE Split(_, _)
Split(str, sep) ==
    IF \A i \in 1..Len(str) : str[i] # sep THEN <<str>>
    ELSE LET i == CHOOSE k \in 1..Len(str) :
                      str[k] = sep /\ \A j \in 1..(k-1) : str[j] # sep
         IN  <<SubSeq(str, 1, i-1)>> \o Split(SubSeq(str, i+1, Len(str)), sep)

\* ------------------------------------------------------------------ errors
NoErr == [msg |-> "", val |-> <<>>, arg |-> <<>>]

IsErr(e) == e.msg # ""

\* ------------------------------------------------------- access-mode codec
ReadOnlyMany == "ReadOnlyMany"

ReadWriteMany == "ReadWriteMany"

ReadWriteOnce == "ReadWriteOnce"

ValidModes == {ReadOnlyMany, ReadWriteMany, ReadWriteOnce}

\* a v1.PersistentVolumeAccessMode is a Go string: "" is its zero value and
\* "Other" stands for any value outside the three constants
AllModes == ValidModes \cup {"", "Other"}

SymRo == <<"r", "o">>

SymRw == <<"r", "w">>

SymRwOnce == <<"r", "w", "-", "o", "n", "c", "e">>

SymBogus == <<"b", "o", "g", "u", "s">>

\* *AccessModes: isNil models the nil pointer
NilAccessModes == [isNil |-> TRUE, Modes |-> <<>>]

AccessModes(m) == [isNil |-> FALSE, Modes |-> m]

ModeSymbol(mode) ==
    CASE mode = ReadOnlyMany  -> SymRo
      [] mode = ReadWriteMany -> SymRw
      [] mode = ReadWriteOnce -> SymRwOnce
      [] OTHER                -> <<>>

\* index of the first element the switch of ToString rejects, 0 if none
FirstInvalidMode(m) ==
    IF \A i \in 1..Len(m) : m[i] \in ValidModes THEN 0
    ELSE CHOOSE i \in 1..Len(m) :
             m[i] \notin ValidModes /\ \A j \in 1..(i-1) : m[j] \in ValidModes

ToString(am) ==
    IF am.isNil THEN [str |-> <<>>, err |-> NoErr]
    ELSE IF Len(am.Modes) = 0 THEN [str |-> <<>>, err |-> NoErr]
    ELSE IF FirstInvalidMode(am.Modes) # 0
         THEN [str |-> <<>>,
               err |-> [msg |-> "invalid instance",
                        val |-> am.Modes[FirstInvalidMode(am.Modes)],
                        arg |-> <<>>]]
         ELSE [str |-> Join([i \in 1..Len(am.Modes) |-> ModeSymbol(am.Modes[i])], ","),
               err |-> NoErr]

ParseSymbol(tok) ==
    CASE tok = SymRo     -> ReadOnlyMany
      [] tok = SymRw     -> ReadWriteMany
      [] tok = SymRwOnce -> ReadWriteOnce
      [] OTHER           -> ""

KnownSymbol(tok) == tok \in {SymRo, SymRw, SymRwOnce}

\* FirstBadToken with a loop that looks at the first token only
FirstBadToken_FirstOnly(toks) ==
    IF Len(toks) = 0 \/ toks[1] \in {SymRo, SymRw, SymRwOnce} THEN 0 ELSE 1

\* index of the first token the switch of InitFromString rejects, 0 if none
FirstBadToken(toks) ==
    IF \A i \in 1..Len(toks) : KnownSymbol(toks[i]) THEN 0
    ELSE CHOOSE i \in 1..Len(toks) :
             ~KnownSymbol(toks[i]) /\ \A j \in 1..(i-1) : KnownSymbol(toks[j])

\* the receiver after the call and the error returned.  On a rejected token
\* the slice made at line 94 keeps the entries already assigned and the zero
\* value "" everywhere else.
InitFromString(str) ==
    LET modes == Split(str, ",")
        bad   == FirstBadToken(modes)
    IN  IF Len(modes) = 0 THEN [am |-> AccessModes(<<>>), err |-> NoErr]
        ELSE IF bad # 0
             THEN [am  |-> AccessModes([i \in 1..Len(modes) |->
                                 IF i < bad THEN ParseSymbol(modes[i]) ELSE ""]),
                   err |-> [msg |-> "couldn't parse",
                            val |-> [i \in 1..Len(modes) |->
                                 IF i < bad THEN ParseSymbol(modes[i]) ELSE ""],
                            arg |-> str]]
             ELSE [am  |-> AccessModes([i \in 1..Len(modes) |-> ParseSymbol(modes[i])]),
                   err |-> NoErr]

\* -------------------------------------------------------------- JSON values
\* a JSON scalar: t = "str" with its characters, or t = "num" (any non-string)
JStr(chars) == [t |-> "str", s |-> chars]

JNum == [t |-> "num", s |-> <<>>]

\* a flat object is a function from a finite set of keys to JSON scalars;
\* encoding/json's Marshal and Unmarshal of map[string]interface{} carry it
\* over unchanged.
EmptyObj == [k \in {} |-> JNum]

Has(obj, k) == k \in DOMAIN obj

\* obj[k] = val on a Go map
Put(obj, k, val) == [x \in DOMAIN obj \cup {k} |-> IF x = k THEN val ELSE obj[x]]

Restrict(obj, keys) == [x \in DOMAIN obj \cap keys |-> obj[x]]

\* ------------------------------------------------------------ volume source
\* the tag constants are set outside this file; "hostpath" is the tag of the
\* documented wire example
VolumeTypeGcePD == <<"g", "c", "e", "p", "d">>

VolumeTypeAwsEBS == <<"a", "w", "s", "e", "b", "s">>

VolumeTypeHostPath == <<"h", "o", "s", "t", "p", "a", "t", "h">>

\* a variant slot (*GcePDVolume, *AwsEBSVolume, *HostPathVolume) is written
\* as what its Marshal returns: the selector tokens and the extra fields, or
\* bad = TRUE when its Marshal returns an error.
NilVolume == [isNil |-> TRUE, bad |-> FALSE, Selector |-> <<>>, ExtraFields |-> EmptyObj]

Volume(sel, extra) == [isNil |-> FALSE, bad |-> FALSE, Selector |-> sel, ExtraFields |-> extra]

BadVolume == [isNil |-> FALSE, bad |-> TRUE, Selector |-> <<>>, ExtraFields |-> EmptyObj]

\* &GcePDVolume{} and its siblings
ZeroVolume == Volume(<<>>, EmptyObj)

PersistentVolumeSource(g, e, h) == [GcePD |-> g, AwsEBS |-> e, HostPath |-> h]

EmptySource == PersistentVolumeSource(NilVolume, NilVolume, NilVolume)

NilMarshalled == [isNil |-> TRUE, Type |-> <<>>, Selector |-> <<>>, ExtraFields |-> EmptyObj]

\* variant.Marshal(): (*MarshalledVolume, error)
Marshal(vol, tag) ==
    IF vol.bad
    THEN [mv |-> NilMarshalled,
          err |-> [msg |-> "variant marshal failed", val |-> tag, arg |-> <<>>]]
    ELSE [mv |-> [isNil |-> FALSE, Type |-> tag, Selector |-> vol.Selector,
                  ExtraFields |-> vol.ExtraFields],
          err |-> NoErr]

\* the keys a variant reads from the flat object besides the selector
ExtraKeys(tag) == IF tag = VolumeTypeHostPath THEN {} ELSE {"fs"}

\* variant.Unmarshal(obj, selector): the slot it leaves and its error
VariantUnmarshal(tag, obj, selector, reject) ==
    IF reject
    THEN [vol |-> ZeroVolume,
          err |-> [msg |-> "variant unmarshal failed", val |-> tag, arg |-> <<>>]]
    ELSE [vol |-> Volume(selector, Restrict(obj, ExtraKeys(tag))), err |-> NoErr]

\* SelectMarshalled as an if / else-if chain: the first populated slot wins
SelectMarshalled_FirstWins(src) ==
    IF ~src.GcePD.isNil THEN Marshal(src.GcePD, VolumeTypeGcePD)
    ELSE IF ~src.AwsEBS.isNil THEN Marshal(src.AwsEBS, VolumeTypeAwsEBS)
    ELSE IF ~src.HostPath.isNil THEN Marshal(src.HostPath, VolumeTypeHostPath)
    ELSE [mv |-> NilMarshalled, err |-> NoErr]

\* the three if statements of lines 229-237 run one after the other, each
\* overwriting marshalledVolume and err
SelectMarshalled(src) ==
    LET r0 == [mv |-> NilMarshalled, err |-> NoErr]
        r1 == IF ~src.GcePD.isNil THEN Marshal(src.GcePD, VolumeTypeGcePD) ELSE r0
        r2 == IF ~src.AwsEBS.isNil THEN Marshal(src.AwsEBS, VolumeTypeAwsEBS) ELSE r1
        r3 == IF ~src.HostPath.isNil THEN Marshal(src.HostPath, VolumeTypeHostPath) ELSE r2
    IN  r3

\* InjectSelector without the length test
InjectSelector_Always(obj, selector) == Put(obj, "vol_id", JStr(Join(selector, ":")))

InjectSelector(obj, selector) ==
    IF Len(selector) > 0 THEN Put(obj, "vol_id", JStr(Join(selector, ":"))) ELSE obj

\* PersistentVolumeSource.MarshalJSON: the bytes (nil on error) and the error
SourceMarshalJSON(src) ==
    LET r == SelectMarshalled(src)
    IN  IF IsErr(r.err) THEN [isNil |-> TRUE, obj |-> EmptyObj, err |-> r.err]
        ELSE IF r.mv.isNil
             THEN [isNil |-> TRUE, obj |-> EmptyObj,
                   err |-> [msg |-> "empty volume definition", val |-> <<>>, arg |-> <<>>]]
             ELSE [isNil |-> FALSE,
                   obj |-> InjectSelector(Put(r.mv.ExtraFields, "vol_type", JStr(r.mv.Type)),
                                          r.mv.Selector),
                   err |-> NoErr]

\* util.GetStringEntry(obj, key)
GetStringEntry(obj, key) ==
    IF Has(obj, key) /\ obj[key].t = "str"
    THEN [str |-> obj[key].s, err |-> NoErr]
    ELSE [str |-> <<>>,
          err |-> [msg |-> "missing or non-string entry", val |-> key, arg |-> <<>>]]

\* Unmarshal with the host-path variant as the default case
Unmarshal_Fallback(src, obj, volType, selector, reject) ==
    LET u == VariantUnmarshal(volType, obj, selector, reject)
    IN  CASE volType = VolumeTypeGcePD ->
               [src |-> [src EXCEPT !.GcePD = u.vol], err |-> u.err]
          [] volType = VolumeTypeAwsEBS ->
               [src |-> [src EXCEPT !.AwsEBS = u.vol], err |-> u.err]
          [] OTHER ->
               [src |-> [src EXCEPT !.HostPath = u.vol], err |-> u.err]

\* PersistentVolumeSource.Unmarshal: only the slot named by volType is
\* assigned, the other two keep what they held
Unmarshal(src, obj, volType, selector, reject) ==
    LET u == VariantUnmarshal(volType, obj, selector, reject)
    IN  CASE volType = VolumeTypeGcePD ->
               [src |-> [src EXCEPT !.GcePD = u.vol], err |-> u.err]
          [] volType = VolumeTypeAwsEBS ->
               [src |-> [src EXCEPT !.AwsEBS = u.vol], err |-> u.err]
          [] volType = VolumeTypeHostPath ->
               [src |-> [src EXCEPT !.HostPath = u.vol], err |-> u.err]
          [] OTHER ->
               [src |-> src,
                err |-> [msg |-> "unsupported volume type", val |-> volType, arg |-> volType]]

\* PersistentVolumeSource.UnmarshalJSON
SourceUnmarshalJSON(src, d, reject) ==
    IF ~d.isObj
    THEN [src |-> src,
          err |-> [msg |-> "expected dictionary for persistent volume",
                   val |-> <<>>, arg |-> <<>>]]
    ELSE IF Has(d.obj, "vol_id") /\ d.obj["vol_id"].t # "str"
    THEN [src |-> src,
          err |-> [msg |-> "expected string for key vol_id", val |-> <<>>, arg |-> <<>>]]
    ELSE LET selector == IF Has(d.obj, "vol_id") THEN Split(d.obj["vol_id"].s, ":") ELSE <<>>
             volType  == GetStringEntry(d.obj, "vol_type")
         IN  IF IsErr(volType.err) THEN [src |-> src, err |-> volType.err]
             ELSE Unmarshal(src, d.obj, volType.str, selector, reject)

\* ---------------------------------------------------------------- metadata
\* PersistentVolumeMeta, with the fields Name (string, omitempty) and
\* AccessModes (*AccessModes, omitempty) standing for the plain and the
\* custom-codec fields
PersistentVolumeMeta(name, am) == [Name |-> name, AccessModes |-> am]

ZeroMeta == PersistentVolumeMeta(<<>>, NilAccessModes)

PersistentVolume(meta, src) == [meta |-> meta, src |-> src]

ZeroPV == PersistentVolume(ZeroMeta, EmptySource)

\* AccessModes.MarshalJSON
ModesMarshalJSON(am) ==
    LET r == ToString(am)
    IN  [val |-> JStr(r.str), err |-> r.err]

\* AccessModes.UnmarshalJSON on the pointer held by the metadata; the json
\* package allocates the pointer before it calls the method
ModesUnmarshalJSON(am, val) ==
    IF val.t # "str"
    THEN [am  |-> IF am.isNil THEN AccessModes(<<>>) ELSE am,
          err |-> [msg |-> "couldn't unmarshal from JSON", val |-> <<>>, arg |-> <<>>]]
    ELSE InitFromString(val.s)

\* json.Marshal(v.PersistentVolumeMeta): omitempty drops the empty string
\* and the nil pointer, never a non-nil *AccessModes
MetaMarshal(meta) ==
    LET m    == ModesMarshalJSON(meta.AccessModes)
        o1   == IF meta.Name # <<>> THEN Put(EmptyObj, "name", JStr(meta.Name)) ELSE EmptyObj
        o2   == IF ~meta.AccessModes.isNil THEN Put(o1, "modes", m.val) ELSE o1
    IN  IF ~meta.AccessModes.isNil /\ IsErr(m.err)
        THEN [obj |-> EmptyObj, err |-> m.err]
        ELSE [obj |-> o2, err |-> NoErr]

\* json.Unmarshal(data, &v.PersistentVolumeMeta), keys in the order
\* json.Marshal writes them ("modes" before "name"): an error of the custom
\* decoder ends the call at once, a type mismatch of a plain field is
\* reported after the remaining fields are decoded
MetaUnmarshal(meta, d) ==
    IF ~d.isObj
    THEN [meta |-> meta,
          err |-> [msg |-> "cannot unmarshal into struct", val |-> <<>>, arg |-> <<>>]]
    ELSE LET m == IF Has(d.obj, "modes")
                  THEN ModesUnmarshalJSON(meta.AccessModes, d.obj["modes"])
                  ELSE [am |-> meta.AccessModes, err |-> NoErr]
         IN  IF IsErr(m.err)
             THEN [meta |-> [meta EXCEPT !.AccessModes = m.am], err |-> m.err]
             ELSE IF Has(d.obj, "name") /\ d.obj["name"].t # "str"
             THEN [meta |-> [meta EXCEPT !.AccessModes = m.am],
                   err |-> [msg |-> "cannot unmarshal into string", val |-> <<>>, arg |-> <<>>]]
             ELSE [meta |-> [meta EXCEPT !.AccessModes = m.am,
                                         !.Name = IF Has(d.obj, "name")
                                                  THEN d.obj["name"].s ELSE @],
                   err |-> NoErr]

\* ------------------------------------------------------- persistent volume
\* Merge the other way round: the source object is written over metaObj
Merge_SourceWins(sourceObj, metaObj) ==
    [k \in DOMAIN sourceObj \cup DOMAIN metaObj |->
        IF k \in DOMAIN sourceObj THEN sourceObj[k] ELSE metaObj[k]]

\* the loop of lines 173-175: every key of metaObj is written over sourceObj
Merge(sourceObj, metaObj) ==
    [k \in DOMAIN sourceObj \cup DOMAIN metaObj |->
        IF k \in DOMAIN metaObj THEN metaObj[k] ELSE sourceObj[k]]

\* MarshalJSON that drops the error of the source half and emits the
\* metadata alone
MarshalJSON_BestEffort(pv) ==
    LET b  == MetaMarshal(pv.meta)
        bb == SourceMarshalJSON(pv.src)
    IN  IF IsErr(b.err)
        THEN [isNil |-> TRUE, obj |-> EmptyObj,
              err |-> [msg |-> "couldn't marshal metadata to JSON",
                       val |-> b.err.msg, arg |-> <<>>]]
        ELSE [isNil |-> FALSE, obj |-> Merge(bb.obj, b.obj), err |-> NoErr]

\* PersistentVolume.MarshalJSON
MarshalJSON(pv) ==
    LET b  == MetaMarshal(pv.meta)
        bb == SourceMarshalJSON(pv.src)
    IN  IF IsErr(b.err)
        THEN [isNil |-> TRUE, obj |-> EmptyObj,
              err |-> [msg |-> "couldn't marshal metadata to JSON",
                       val |-> b.err.msg, arg |-> <<>>]]
        ELSE IF IsErr(bb.err)
        THEN [isNil |-> TRUE, obj |-> EmptyObj, err |-> bb.err]
        ELSE [isNil |-> FALSE, obj |-> Merge(bb.obj, b.obj), err |-> NoErr]

\* PersistentVolume.UnmarshalJSON
UnmarshalJSON(pv, d, reject) ==
    LET sr == SourceUnmarshalJSON(pv.src, d, reject)
        mr == MetaUnmarshal(pv.meta, d)
    IN  IF IsErr(sr.err)
        THEN [pv  |-> [pv EXCEPT !.src = sr.src],
              err |-> [msg |-> "couldn't unmarshal volume source from JSON",
                       val |-> sr.err.msg, arg |-> sr.err.arg]]
        ELSE IF IsErr(mr.err)
        THEN [pv  |-> PersistentVolume(mr.meta, sr.src),
              err |-> [msg |-> "couldn't unmarshal metadata from JSON",
                       val |-> mr.err.msg, arg |-> mr.err.arg]]
        ELSE [pv |-> PersistentVolume(mr.meta, sr.src), err |-> NoErr]

\* ------------------------------------------------------------ input spaces
\* mode lists a caller can build
ModeLists == SeqsUpTo(AllModes, MaxModes)

\* compact strings a caller can pass: comma-joined tokens
InputTokens == {SymRo, SymRw, SymRwOnce, SymBogus, <<>>}

InputStrings == {Join(ts, ",") : ts \in SeqsUpTo(InputTokens, MaxModes)}

NoBytes == [isNil |-> TRUE, isObj |-> FALSE, obj |-> EmptyObj]

Bytes(obj) == [isNil |-> FALSE, isObj |-> TRUE, obj |-> obj]

NotObjBytes == [isNil |-> FALSE, isObj |-> FALSE, obj |-> EmptyObj]

Hist(op, pre, rt, r) == [op |-> op, pre |-> pre, rt |-> rt, r |-> r]

\* -------------------------------------------- specification of the codec
InitModes ==
    /\ a \in {NilAccessModes} \cup {AccessModes(m) : m \in ModeLists}
    /\ s = <<>>
    /\ v = ZeroPV
    /\ data = NoBytes
    /\ err = NoErr
    /\ hist = Hist("new", a, FALSE, a)

\* str, err := a.ToString()
DoToString ==
    /\ hist.op = "new"
    /\ s' = ToString(a).str
    /\ err' = ToString(a).err
    /\ hist' = Hist("ToString", a, FALSE, a)
    /\ UNCHANGED <<a, v, data>>

\* err := a.InitFromString(str) with a string of the caller
DoInitFromString ==
    /\ hist.op = "new"
    /\ ~a.isNil
    /\ \E str \in InputStrings :
          /\ s' = str
          /\ a' = InitFromString(str).am
          /\ err' = InitFromString(str).err
          /\ hist' = Hist("InitFromString", a, FALSE, a)
    /\ UNCHANGED <<v, data>>

\* err := b.InitFromString(str) with the string ToString returned, b fresh
DoInitFromToString ==
    /\ hist.op = "ToString"
    /\ ~IsErr(err)
    /\ a' = InitFromString(s).am
    /\ err' = InitFromString(s).err
    /\ hist' = Hist("InitFromString", AccessModes(<<>>), TRUE, hist.r)
    /\ UNCHANGED <<s, v, data>>

NextModes == DoToString \/ DoInitFromString \/ DoInitFromToString

SpecModes == InitModes /\ [][NextModes]_vars

\* ------------------------------------------- specification of the encoder
SelTokens == {<<>>, <<"d">>, <<"c", ":", "d">>}

Selectors == SeqsUpTo(SelTokens, MaxSel)

\* extra fields a variant's Marshal may surface, among them a key the
\* metadata also owns ("name") and the two keys the encoder injects
ExtraMaps ==
    { EmptyObj,
      Put(EmptyObj, "fs", JStr(<<"x">>)),
      Put(EmptyObj, "name", JStr(<<"x">>)),
      Put(Put(EmptyObj, "fs", JStr(<<"x">>)), "vol_type", JStr(<<"z">>)),
      Put(EmptyObj, "vol_id", JStr(<<"q">>)) }

Volumes == {Volume(sel, ex) : sel \in Selectors, ex \in ExtraMaps}

FewVolumes == {NilVolume, BadVolume, Volume(<< <<"d">> >>, Put(EmptyObj, "fs", JStr(<<"x">>)))}

\* sources a caller can build: every combination of populated slots, and
\* every selector and extra-field bag in a single populated slot
SourceValues ==
    {PersistentVolumeSource(g, e, h) : g \in FewVolumes, e \in FewVolumes, h \in FewVolumes}
    \cup {PersistentVolumeSource(x, NilVolume, NilVolume) : x \in Volumes}
    \cup {PersistentVolumeSource(NilVolume, x, NilVolume) : x \in Volumes}
    \cup {PersistentVolumeSource(NilVolume, NilVolume, x) : x \in Volumes}

MetaModes == {ReadOnlyMany, ReadWriteOnce, "Other"}

MetaValues ==
    {PersistentVolumeMeta(n, m) :
        n \in {<<>>, <<"p">>},
        m \in {NilAccessModes} \cup {AccessModes(l) : l \in SeqsUpTo(MetaModes, MaxModes)}}

InitEnc ==
    /\ a = NilAccessModes
    /\ s = <<>>
    /\ v \in {PersistentVolume(m, src) : m \in MetaValues, src \in SourceValues}
    /\ data = NoBytes
    /\ err = NoErr
    /\ hist = Hist("new", v, FALSE, v)

\* data, err := json.Marshal(v.PersistentVolumeSource)
DoSourceMarshalJSON ==
    /\ hist.op = "new"
    /\ LET r == SourceMarshalJSON(v.src)
       IN  /\ data' = IF r.isNil THEN NoBytes ELSE Bytes(r.obj)
           /\ err' = r.err
    /\ hist' = Hist("SourceMarshalJSON", v, FALSE, v)
    /\ UNCHANGED <<a, s, v>>

\* data, err := json.Marshal(v)
DoMarshalJSON ==
    /\ hist.op = "new"
    /\ LET r == MarshalJSON(v)
       IN  /\ data' = IF r.isNil THEN NoBytes ELSE Bytes(r.obj)
           /\ err' = r.err
    /\ hist' = Hist("MarshalJSON", v, FALSE, v)
    /\ UNCHANGED <<a, s, v>>

\* err := json.Unmarshal(data, &w) with the bytes MarshalJSON returned and a
\* fresh w; the variant decoders accept what their encoders wrote
DoUnmarshalMarshalled ==
    /\ hist.op = "MarshalJSON"
    /\ ~IsErr(err)
    /\ LET r == UnmarshalJSON(ZeroPV, data, FALSE)
       IN  /\ v' = r.pv
           /\ err' = r.err
    /\ hist' = Hist("UnmarshalJSON", ZeroPV, TRUE, hist.r)
    /\ UNCHANGED <<a, s, data>>

NextEnc == DoSourceMarshalJSON \/ DoMarshalJSON \/ DoUnmarshalMarshalled

SpecEnc == InitEnc /\ [][NextEnc]_vars

\* ------------------------------------------- specification of the decoder
TagValues ==
    {JNum, JStr(VolumeTypeGcePD), JStr(VolumeTypeAwsEBS), JStr(VolumeTypeHostPath),
     JStr(<<"n", "f", "s">>)}

VolIdValues == {JNum, JStr(<<"c", ":", "d">>)}

\* the values tried under each key of a flat object
SourceKeyValues ==
    [vol_type |-> TagValues, vol_id |-> VolIdValues, fs |-> {JStr(<<"x">>)}]

MetaKeyValues ==
    [vol_type |-> {JStr(VolumeTypeAwsEBS)},
     name     |-> {JNum, JStr(<<"p">>)},
     modes    |-> {JNum, JStr(<<>>), JStr(SymRo), JStr(SymRo \o <<",">> \o SymBogus)}]

\* the objects that hold some of the keys of vals, each with one of its values
Objects(vals) ==
    UNION {{f \in [ks -> UNION {vals[k] : k \in ks}] : \A k \in ks : f[k] \in vals[k]} :
             ks \in SUBSET (DOMAIN vals)}

\* flat objects that exercise the source half: every tag, with and without
\* a compound identifier, and an extra field for one variant
SourceInputs ==
    {NotObjBytes}
    \cup {Bytes(o) : o \in {x \in Objects(SourceKeyValues) :
                              Has(x, "fs") => /\ Has(x, "vol_type")
                                              /\ x["vol_type"] = JStr(VolumeTypeGcePD)}}

\* flat objects that exercise the metadata half
MetaInputs ==
    {Bytes(o) : o \in {x \in Objects(MetaKeyValues) :
                         Has(x, "vol_type")}}

DecodeInputs == SourceInputs \cup MetaInputs

\* whether the variant decoder may turn the object down: only a registered
\* tag reaches one
Rejections(d) ==
    IF /\ d.isObj
       /\ Has(d.obj, "vol_type")
       /\ d.obj["vol_type"] \in {JStr(VolumeTypeGcePD), JStr(VolumeTypeAwsEBS),
                                 JStr(VolumeTypeHostPath)}
       /\ ~Has(d.obj, "name")
       /\ ~Has(d.obj, "modes")
    THEN BOOLEAN ELSE {FALSE}

InitDec ==
    /\ a = NilAccessModes
    /\ s = <<>>
    /\ v = ZeroPV
    /\ data = NoBytes
    /\ err = NoErr
    /\ hist = Hist("new", v, FALSE, v)

\* err := json.Unmarshal(d, &v.PersistentVolumeSource)
DoSourceUnmarshalJSON ==
    /\ \E d \in SourceInputs : \E reject \in Rejections(d) :
          LET r == SourceUnmarshalJSON(v.src, d, reject)
          IN  /\ v' = [v EXCEPT !.src = r.src]
              /\ err' = r.err
              /\ data' = d
    /\ hist' = Hist("SourceUnmarshalJSON", v, FALSE, v)
    /\ UNCHANGED <<a, s>>

\* err := json.Unmarshal(d, &v)
DoUnmarshalJSON ==
    /\ \E d \in DecodeInputs : \E reject \in Rejections(d) :
          LET r == UnmarshalJSON(v, d, reject)
          IN  /\ v' = r.pv
              /\ err' = r.err
              /\ data' = d
    /\ hist' = Hist("UnmarshalJSON", v, FALSE, v)
    /\ UNCHANGED <<a, s>>

NextDec == DoSourceUnmarshalJSON \/ DoUnmarshalJSON

SpecDec == InitDec /\ [][NextDec]_vars

\* ------------------------------------------------- claims on the list codec
Symbols == {SymRo, SymRw, SymRwOnce}

HasUnknownToken(str) ==
    \E i \in 1..Len(Split(str, ",")) : Split(str, ",")[i] \notin Symbols

FirstUnknownToken(str) ==
    LET toks == Split(str, ",")
        i    == CHOOSE k \in 1..Len(toks) :
                    toks[k] \notin Symbols /\ \A j \in 1..(k-1) : toks[j] \in Symbols
    IN  toks[i]

\* C2 (as stated): for every list m of valid access modes, of any length
\* including zero, InitFromString(ToString(m)) succeeds and leaves m.
C2_CompactRoundTrip ==
    (/\ hist.op = "InitFromString"
     /\ hist.rt
     /\ ~hist.r.isNil
     /\ \A i \in 1..Len(hist.r.Modes) : hist.r.Modes[i] \in ValidModes)
    => (~IsErr(err) /\ a.Modes = hist.r.Modes)

\* C4 (as stated): InitFromString("") returns no error and leaves an empty
\* mode list.
C4_EmptyStringEmptyList ==
    (hist.op = "InitFromString" /\ s = <<>>)
    => (~IsErr(err) /\ Len(a.Modes) = 0)

\* C9 (as stated): on a string with an unknown token the error identifies
\* the first unparsed token as well as the original string.
C9_ErrorNamesToken ==
    (hist.op = "InitFromString" /\ HasUnknownToken(s))
    => (/\ IsErr(err)
        /\ err.arg = s
        /\ FirstUnknownToken(s) \in {err.val, err.arg})

\* C9 (amended): on a string with an unknown token InitFromString fails with
\* the parse error, which carries the original string as a whole together
\* with the receiver as the call left it.
C9_ErrorCarriesString ==
    (hist.op = "InitFromString" /\ HasUnknownToken(s))
    => (/\ IsErr(err)
        /\ err.msg = "couldn't parse"
        /\ err.arg = s
        /\ err.val = a.Modes)

C9_Witness ==
    /\ hist.op = "InitFromString"
    /\ s = SymRo \o <<",">> \o SymBogus
    /\ IsErr(err)
    /\ err.arg # SymBogus

\* ---------------------------------------------------- claims on the encoder
Populated(src) ==
    {x \in {"GcePD", "AwsEBS", "HostPath"} : ~src[x].isNil}

TagOf(x) ==
    CASE x = "GcePD"    -> VolumeTypeGcePD
      [] x = "AwsEBS"   -> VolumeTypeAwsEBS
      [] x = "HostPath" -> VolumeTypeHostPath

SlotRank(x) ==
    CASE x = "GcePD" -> 1 [] x = "AwsEBS" -> 2 [] x = "HostPath" -> 3

FirstPopulated(src) ==
    CHOOSE x \in Populated(src) : \A y \in Populated(src) : SlotRank(x) <= SlotRank(y)

LastPopulated(src) ==
    CHOOSE x \in Populated(src) : \A y \in Populated(src) : SlotRank(x) >= SlotRank(y)

RECURSIVE TotalLen(_)
TotalLen(parts) == IF Len(parts) = 0 THEN 0 ELSE Len(parts[1]) + TotalLen(Tail(parts))

\* str is the tokens of parts in order with one sep between neighbours
IsJoined(str, parts, sep) ==
    /\ Len(parts) > 0
    /\ Len(str) = TotalLen(parts) + Len(parts) - 1
    /\ \A i \in 1..Len(parts) :
          LET off == TotalLen(SubSeq(parts, 1, i-1)) + (i-1)
          IN  /\ SubSeq(str, off + 1, off + Len(parts[i])) = parts[i]
              /\ i < Len(parts) => str[off + Len(parts[i]) + 1] = sep

\* obj is what the encoder is to write for the slot vol under the tag
CarriesSlot(obj, vol, tag) ==
    /\ Has(obj, "vol_type") /\ obj["vol_type"] = JStr(tag)
    /\ Len(vol.Selector) > 0 =>
          /\ Has(obj, "vol_id") /\ obj["vol_id"].t = "str"
          /\ IsJoined(obj["vol_id"].s, vol.Selector, ":")
    /\ \A k \in DOMAIN vol.ExtraFields \ {"vol_type", "vol_id"} :
          Has(obj, k) /\ obj[k] = vol.ExtraFields[k]

\* C5 (as stated): with one, two or three slots populated the encoder
\* writes the tag, selector and extra fields of the FIRST populated slot in
\* the order GcePD, AwsEBS, HostPath.
C5_FirstPopulatedWins ==
    (/\ hist.op = "SourceMarshalJSON"
     /\ Populated(hist.r.src) # {}
     /\ ~hist.r.src[FirstPopulated(hist.r.src)].bad)
    => (/\ ~IsErr(err)
        /\ ~data.isNil
        /\ CarriesSlot(data.obj, hist.r.src[FirstPopulated(hist.r.src)],
                       TagOf(FirstPopulated(hist.r.src))))

\* C5 (amended): the encoder examines the slots in the order GcePD, AwsEBS,
\* HostPath and every populated slot overwrites the result of the ones
\* before it, so it writes the tag, selector and extra fields of the LAST
\* populated slot in that order, and fails exactly when that slot's Marshal
\* fails.
C5_LastPopulatedWins ==
    (hist.op = "SourceMarshalJSON" /\ Populated(hist.r.src) # {})
    => LET x == LastPopulated(hist.r.src)
       IN  IF hist.r.src[x].bad
           THEN IsErr(err) /\ data.isNil /\ err.val = TagOf(x)
           ELSE /\ ~IsErr(err)
                /\ ~data.isNil
                /\ CarriesSlot(data.obj, hist.r.src[x], TagOf(x))

C5_Witness ==
    /\ hist.op = "SourceMarshalJSON"
    /\ Cardinality(Populated(hist.r.src)) = 3
    /\ hist.r.src.GcePD.bad
    /\ ~hist.r.src.HostPath.bad
    /\ ~IsErr(err)
    /\ data.obj["vol_type"] = JStr(VolumeTypeHostPath)

\* C7: the encoder injects "vol_id" if and only if the selected variant's
\* selector list is non-empty, and then as the tokens joined with ":" in
\* order; with an empty selector list the object has a "vol_id" only if the
\* extra fields brought one; "vol_type" is always the variant's tag.
C7_SelectorOmission ==
    (hist.op = "SourceMarshalJSON" /\ ~IsErr(err))
    => LET vol == hist.r.src[LastPopulated(hist.r.src)]
           tag == TagOf(LastPopulated(hist.r.src))
       IN  /\ Has(data.obj, "vol_type") /\ data.obj["vol_type"] = JStr(tag)
           /\ Len(vol.Selector) > 0 =>
                 /\ Has(data.obj, "vol_id")
                 /\ data.obj["vol_id"].t = "str"
                 /\ IsJoined(data.obj["vol_id"].s, vol.Selector, ":")
           /\ Len(vol.Selector) = 0 =>
                 /\ Has(data.obj, "vol_id") <=> Has(vol.ExtraFields, "vol_id")
                 /\ Has(data.obj, "vol_id") => data.obj["vol_id"] = vol.ExtraFields["vol_id"]

C7_Witness ==
    /\ hist.op = "SourceMarshalJSON"
    /\ ~IsErr(err)
    /\ Populated(hist.r.src) = {"AwsEBS"}
    /\ Len(hist.r.src.AwsEBS.Selector) = 0
    /\ Has(hist.r.src.AwsEBS.ExtraFields, "fs")
    /\ ~Has(data.obj, "vol_id")
    /\ data.obj["vol_type"] = JStr(VolumeTypeAwsEBS)

\* C3: in the object PersistentVolume.MarshalJSON writes, a key held by both
\* the metadata object and the source object has the metadata's value, and
\* a key held by one of them has that one's value.
C3_MetadataPrecedence ==
    (hist.op = "MarshalJSON" /\ ~IsErr(err))
    => LET metaObj   == MetaMarshal(hist.r.meta).obj
           sourceObj == SourceMarshalJSON(hist.r.src).obj
           extra     == hist.r.src[LastPopulated(hist.r.src)].ExtraFields
       IN  /\ DOMAIN data.obj = DOMAIN metaObj \cup DOMAIN sourceObj
           /\ \A k \in DOMAIN metaObj : data.obj[k] = metaObj[k]
           /\ \A k \in DOMAIN sourceObj \ DOMAIN metaObj : data.obj[k] = sourceObj[k]
           /\ (hist.r.meta.Name # <<>> /\ Has(extra, "name"))
                 => data.obj["name"] = JStr(hist.r.meta.Name)
           /\ (hist.r.meta.Name = <<>> /\ Has(extra, "name"))
                 => data.obj["name"] = extra["name"]

C3_Witness ==
    /\ hist.op = "MarshalJSON"
    /\ ~IsErr(err)
    /\ hist.r.meta.Name = <<"p">>
    /\ Populated(hist.r.src) = {"GcePD"}
    /\ Has(hist.r.src.GcePD.ExtraFields, "name")
    /\ hist.r.src.GcePD.ExtraFields["name"] = JStr(<<"x">>)
    /\ data.obj["name"] = JStr(<<"p">>)

\* C6 (as stated): encoding a resource with no slot populated fails with
\* the empty-volume-definition error and returns no bytes, for every
\* metadata value.
C6_EmptyUnion ==
    (hist.op = "MarshalJSON" /\ Populated(hist.r.src) = {})
    => (IsErr(err) /\ err.msg = "empty volume definition" /\ data.isNil)

\* C6 (amended): encoding a resource with no slot populated fails and
\* returns no bytes for every metadata value; the error is the
\* empty-volume-definition error whenever the metadata itself marshals, and
\* the metadata marshal error otherwise (the metadata is marshalled first).
C6_EmptyUnionAfterMetadata ==
    (hist.op = "MarshalJSON" /\ Populated(hist.r.src) = {})
    => /\ IsErr(err)
       /\ data.isNil
       /\ IF \/ hist.r.meta.AccessModes.isNil
             \/ \A i \in 1..Len(hist.r.meta.AccessModes.Modes) :
                    hist.r.meta.AccessModes.Modes[i] \in ValidModes
          THEN err.msg = "empty volume definition"
          ELSE err.msg = "couldn't marshal metadata to JSON"

C6_Witness ==
    /\ hist.op = "MarshalJSON"
    /\ Populated(hist.r.src) = {}
    /\ hist.r.meta.Name = <<"p">>
    /\ ~hist.r.meta.AccessModes.isNil
    /\ Len(hist.r.meta.AccessModes.Modes) > 0
    /\ err.msg = "empty volume definition"
    /\ data.isNil

\* a resource the round trip is claimed for: one populated slot whose
\* Marshal succeeds and whose variant reads back what it wrote (extra fields
\* among the keys the variant decodes, no ":" inside a selector token), and
\* a metadata with known access modes only
ValidResource(r) ==
    /\ Cardinality(Populated(r.src)) = 1
    /\ LET x == LastPopulated(r.src)
       IN  /\ ~r.src[x].bad
           /\ DOMAIN r.src[x].ExtraFields \subseteq ExtraKeys(TagOf(x))
           /\ \A i \in 1..Len(r.src[x].Selector) :
                 \A j \in 1..Len(r.src[x].Selector[i]) : r.src[x].Selector[i][j] # ":"
    /\ \A i \in 1..Len(r.meta.AccessModes.Modes) : r.meta.AccessModes.Modes[i] \in ValidModes

\* C1 (as stated): for every valid resource r with exactly one slot
\* populated, also when its AccessModes is present with an empty list,
\* decoding the bytes of MarshalJSON(r) into a fresh value succeeds and
\* yields r field for field.
C1_ResourceRoundTrip ==
    (hist.op = "UnmarshalJSON" /\ hist.rt /\ ValidResource(hist.r))
    => (~IsErr(err) /\ v = hist.r)

\* ---------------------------------------------------- claims on the decoder
RegisteredTags == {VolumeTypeGcePD, VolumeTypeAwsEBS, VolumeTypeHostPath}

Decoded == hist.op \in {"SourceUnmarshalJSON", "UnmarshalJSON"}

UnknownTag ==
    /\ Decoded
    /\ data.isObj
    /\ Has(data.obj, "vol_type")
    /\ data.obj["vol_type"].t = "str"
    /\ data.obj["vol_type"].s \notin RegisteredTags

\* the unsupported-volume-type error carrying the tag, as the source decoder
\* returns it or as PersistentVolume.UnmarshalJSON wraps it
UnsupportedError(e, tag) ==
    IF hist.op = "SourceUnmarshalJSON"
    THEN e.msg = "unsupported volume type" /\ e.val = tag /\ e.arg = tag
    ELSE /\ e.msg = "couldn't unmarshal volume source from JSON"
         /\ e.val = "unsupported volume type"
         /\ e.arg = tag

\* C8 (as stated): for every flat object whose "vol_type" is a string other
\* than the three registered tags, decode fails with the
\* unsupported-volume-type error carrying the tag and populates no slot.
C8_UnknownTag ==
    UnknownTag
    => (/\ UnsupportedError(err, data.obj["vol_type"].s)
        /\ v.src = hist.pre.src)

\* C8 (amended): the same for every flat object whose "vol_id", if present,
\* is a string; a "vol_id" of another JSON type is rejected before the tag
\* is read, with the expected-string error, and again no slot is populated.
C8_UnknownTagStringId ==
    UnknownTag
    => /\ v.src = hist.pre.src
       /\ IsErr(err)
       /\ IF Has(data.obj, "vol_id") /\ data.obj["vol_id"].t # "str"
          THEN ~UnsupportedError(err, data.obj["vol_type"].s)
          ELSE UnsupportedError(err, data.obj["vol_type"].s)

C8_Witness ==
    /\ UnknownTag
    /\ hist.op = "SourceUnmarshalJSON"
    /\ Has(data.obj, "vol_id")
    /\ data.obj["vol_id"].t = "str"
    /\ err.msg = "unsupported volume type"
    /\ err.val = <<"n", "f", "s">>
    /\ Populated(v.src) # {}
    /\ v.src = hist.pre.src

\* C10 (as stated): after any successful source decode, also one that
\* follows earlier decodes on the same value, exactly one slot is populated
\* and it is the one the tag names.
C10_ExactlyOneArm ==
    (Decoded /\ ~IsErr(err))
    => (/\ Cardinality(Populated(v.src)) = 1
        /\ TagOf(LastPopulated(v.src)) = data.obj["vol_type"].s)
====
